---- MODULE Spec2Model ----
(***************************************************************************)
(* TraitBank agent: request construction (TraitBankRequest) and the        *)
(* two-step resolution pipeline TraitBankAgent.fetch_data, with the two    *)
(* network calls of TraitBankTools as the only suspension points.          *)
(*                                                                         *)
(* Strings that the code splits, strips or joins are sequences of          *)
(* one-character strings; Optional[str] is a record [tag, val].            *)
(***************************************************************************)
EXTENDS Integers, Sequences, FiniteSets, TLC

\* ------------------------------------------------------------------ bounds
MaxIdLen == 3      \* longest id input string
MaxKeys == 2       \* most keys in a taxon mapping body
MaxTraitKeys == 2  \* most keys in a trait mapping body
MaxElems == 1      \* longest inner list of a trait body
MaxItems == 1      \* longest top-level list body
MaxCountLen == 3   \* longest inner list of a counted payload
MaxCountSize == 2  \* most entries of a counted payload
MaxReqs == 2       \* requests running concurrently on one agent

\* ------------------------------------------------------------ string model
IdChars == {"9", "4", ",", " "}
KeyStrings == {<<"9">>, <<" ", "4">>, <<" ">>, <<"9", ",", "4">>}
NameStrings == {<<>>, <<"A">>}
SampleIds == {<<"9">>, <<"4", ",", "9">>, <<",">>}
StatusCodes == {200, 404, 500}

RECURSIVE StringsUpTo(_)
StringsUpTo(n) ==
    IF n = 0 THEN {<<>>}
    ELSE LET shorter == StringsUpTo(n - 1)
         IN shorter \cup {Append(s, c) : s \in {t \in shorter : Len(t) = n - 1}, c \in IdChars}

None == [tag |-> "none", val |-> <<>>]
Some(v) == [tag |-> "some", val |-> v]

\* Python truthiness of an Optional[str]: None and "" are falsy
Truthy(o) == o.tag = "some" /\ o.val # <<>>

\* str.strip()
RECURSIVE lstrip(_)
lstrip(s) == IF s # <<>> /\ Head(s) = " " THEN lstrip(Tail(s)) ELSE s
RECURSIVE rstrip(_)
rstrip(s) == IF s # <<>> /\ s[Len(s)] = " " THEN rstrip(SubSeq(s, 1, Len(s) - 1)) ELSE s
strip(s) == rstrip(lstrip(s))

\* str.split(","): always at least one segment
RECURSIVE SplitAcc(_, _, _)
SplitAcc(s, cur, acc) ==
    IF s = <<>> THEN Append(acc, cur)
    ELSE IF Head(s) = "," THEN SplitAcc(Tail(s), <<>>, Append(acc, cur))
    ELSE SplitAcc(Tail(s), Append(cur, Head(s)), acc)
split(s) == SplitAcc(s, <<>>, <<>>)

\* ",".join(list)
RECURSIVE join(_)
join(l) ==
    IF l = <<>> THEN <<>>
    ELSE IF Len(l) = 1 THEN l[1]
    ELSE l[1] \o <<",">> \o join(Tail(l))

\* [x for x in l if x.strip()]: blank entries go, the kept ones are not stripped
RECURSIVE StripNonBlank_unstripped(_)
StripNonBlank_unstripped(l) ==
    IF l = <<>> THEN <<>>
    ELSE IF strip(Head(l)) # <<>>
    THEN <<Head(l)>> \o StripNonBlank_unstripped(Tail(l))
    ELSE StripNonBlank_unstripped(Tail(l))

\* [f(x) for x in l if f(x)] with f = strip
RECURSIVE StripNonBlank(_)
StripNonBlank(l) ==
    IF l = <<>> THEN <<>>
    ELSE LET h == strip(Head(l))
         IN IF h # <<>> THEN <<h>> \o StripNonBlank(Tail(l)) ELSE StripNonBlank(Tail(l))

\* --------------------------------------------------------------- variables
VARIABLES
    input,     \* the keyword arguments the caller passes to TraitBankRequest
    params,    \* the constructed TraitBankRequest
    ctorError, \* the error raised by the constructor, "" if none
    pc,        \* position of the run
    locals,    \* fetch_data's variables that live across a suspension
    calls,     \* network calls issued so far, in order
    inflight,  \* indices of calls issued and not yet completed
    returns,   \* what the transport answered to each completed call, in order
    out,       \* messages yielded by fetch_data, in order
    counter,   \* a payload and the result of the record counter applied to it
    reqs,      \* the runs of the requests that share one agent
    fault      \* the unexpected exception that struck the run, "" if none

vars == <<input, params, ctorError, pc, locals, calls, inflight, returns, out,
          counter, reqs, fault>>

NoLocals ==
    [target_taxon_ids_str |-> None,
     query_identifier_for_traits |-> <<>>,
     prefix |-> [by |-> "none", v |-> <<>>]]

\* every combination of an absent, empty or given name with an absent, empty
\* or sample id, and every id string up to MaxIdLen without a name
Inputs ==
    { [name |-> n, id |-> i] :
        n \in {None} \cup {Some(s) : s \in NameStrings},
        i \in {None, Some(<<>>)} \cup {Some(s) : s \in SampleIds} }
    \cup { [name |-> None, id |-> Some(s)] : s \in StringsUpTo(MaxIdLen) }

Init ==
    /\ input \in Inputs
    /\ params = [name |-> None, id |-> None]
    /\ ctorError = ""
    /\ pc = "new"
    /\ locals = NoLocals
    /\ calls = <<>>
    /\ inflight = {}
    /\ returns = <<>>
    /\ out = <<>>
    /\ counter = [payload |-> [kind |-> "none", keys |-> <<>>, vals |-> <<>>],
                  mode |-> "none", result |-> 0]
    /\ reqs = <<>>
    /\ fault = ""

\* --------------------------------------------------- TraitBankRequest(**data)
MissingInputError == "Either \"name\" or \"id\" must be provided."

\* the validator without line 49: the id is kept next to the name
check_and_prioritize_input_keeps_id(data) ==
    IF ~Truthy(data.name) /\ ~Truthy(data.id)
    THEN [error |-> MissingInputError, data |-> data]
    ELSE [error |-> "", data |-> data]

\* the validator without lines 50-51: nothing is rejected
check_and_prioritize_input_rejects_nothing(data) ==
    IF Truthy(data.name) /\ Truthy(data.id)
    THEN [error |-> "", data |-> [data EXCEPT !.id = None]]
    ELSE [error |-> "", data |-> data]

check_and_prioritize_input(data) ==
    IF Truthy(data.name) /\ Truthy(data.id)
    THEN [error |-> "", data |-> [data EXCEPT !.id = None]]
    ELSE IF ~Truthy(data.name) /\ ~Truthy(data.id)
    THEN [error |-> MissingInputError, data |-> data]
    ELSE [error |-> "", data |-> data]

Construct ==
    /\ pc = "new"
    /\ LET r == check_and_prioritize_input(input)
       IN IF r.error # ""
          THEN /\ ctorError' = r.error
               /\ pc' = "rejected"
               /\ UNCHANGED params
          ELSE /\ params' = r.data
               /\ pc' = "ready"
               /\ UNCHANGED ctorError
    /\ UNCHANGED <<input, locals, calls, inflight, returns, out, counter, reqs, fault>>

\* ------------------------------------------------------------ JSON bodies
\* A body is [kind, keys, vals]: a mapping has keys and vals of equal length
\* (in iteration order), a list has vals only.  A value is [kind, elems]:
\* a list of records, or a scalar / single record.
\* Records: rec_ok fits the verbose record schema, rec_min only the minimal
\* one (a verbose-only field has the wrong type), rec_bad fits neither.
RecKinds == {"rec_ok", "rec_min", "rec_bad"}

Body(kind, keys, vals) == [kind |-> kind, keys |-> keys, vals |-> vals]
NoBody == Body("none", <<>>, <<>>)
Scalar(kind) == [kind |-> kind, elems |-> <<>>]
ListOf(elems) == [kind |-> "list", elems |-> elems]

RECURSIVE SeqsUpTo(_, _)
SeqsUpTo(S, n) ==
    IF n = 0 THEN {<<>>}
    ELSE LET shorter == SeqsUpTo(S, n - 1)
         IN shorter \cup {Append(s, x) : s \in {t \in shorter : Len(t) = n - 1}, x \in S}

Distinct(s) == \A i, j \in 1..Len(s) : i # j => s[i] # s[j]

MapsOver(keySeqs, values) ==
    UNION { { Body("map", ks, vs) : vs \in [1..Len(ks) -> values] } : ks \in keySeqs }

\* bodies the taxon endpoint may answer with
TaxonValues == {Scalar("rec_ok"), Scalar("rec_bad")}
TaxonBodies ==
    MapsOver({ks \in SeqsUpTo(KeyStrings, MaxKeys) : Distinct(ks)}, TaxonValues)
    \cup { Body("list", <<>>, vs) : vs \in SeqsUpTo({Scalar(k) : k \in RecKinds}, MaxItems) }
    \cup { Body("str", <<>>, <<>>), Body("num", <<>>, <<>>) }

\* bodies the trait endpoint may answer with; the keys of a trait mapping are
\* "9", "99", ... in that order
TraitKey(i) == [j \in 1..i |-> "9"]
TraitKeySeqs == { [i \in 1..n |-> TraitKey(i)] : n \in 0..MaxTraitKeys }
TraitValues ==
    { ListOf([j \in 1..n |-> k]) : n \in 0..MaxElems, k \in RecKinds }
    \cup { Scalar("null"), Scalar("str") }
TraitBodies ==
    MapsOver(TraitKeySeqs, TraitValues)
    \cup { Body("list", <<>>, vs) : vs \in SeqsUpTo(TraitValues, MaxItems) }
    \cup { Body("str", <<>>, <<>>), Body("num", <<>>, <<>>) }

\* ------------------------------------------------------- transport outcomes
\* client.get(uri): a response (status, content), a httpx.RequestError, or
\* any other exception.  Content is empty, undecodable, JSON null or a body.
Response(status, content) ==
    [t |-> "response", status |-> status, text |-> "", content |-> content]
TransportFailures ==
    { [t |-> "request_error", status |-> 0, text |-> "ConnectTimeout", content |-> NoBody],
      [t |-> "exception", status |-> 0, text |-> "InvalidURL", content |-> NoBody] }
NoContent == { Body("empty", <<>>, <<>>), Body("garbage", <<>>, <<>>), Body("null", <<>>, <<>>) }
Outcomes(bodies) ==
    TransportFailures
    \cup { Response(st, Body("empty", <<>>, <<>>)) : st \in StatusCodes \ {200} }
    \cup { Response(200, c) : c \in NoContent \cup bodies }

\* ------------------------------------------------------------ TraitBankTools
\* one parameter set for both lookups
_get_query_params_always_exact(data_type) ==
    [k \in {"verbose", "assoc", "exact"} |-> "1"]

_get_query_params(data_type) ==
    IF data_type = "taxon"
    THEN [k \in {"verbose", "assoc", "exact"} |-> "1"]
    ELSE [k \in {"verbose", "assoc"} |-> "1"]

Call(api, arg) == [api |-> api, arg |-> arg, query |-> _get_query_params(api)]

\* response.raise_for_status(), then the decoding of the content; the result
\* is what the awaiting caller sees: an exception or (data, uri)
is_success(status) == 200 <= status /\ status <= 299

\* empty or undecodable content is handed on as an empty mapping
ToolResult_empty_mapping(call, o) ==
    IF o.t = "request_error"
    THEN [exc |-> "RequestError", status |-> 0, text |-> o.text, data |-> NoBody, uri |-> call]
    ELSE IF o.t = "exception"
    THEN [exc |-> "Exception", status |-> 0, text |-> o.text, data |-> NoBody, uri |-> call]
    ELSE IF ~is_success(o.status)
    THEN [exc |-> "HTTPStatusError", status |-> o.status, text |-> "", data |-> NoBody, uri |-> call]
    ELSE IF o.content.kind \in {"empty", "garbage", "null"}
    THEN [exc |-> "none", status |-> o.status, text |-> "",
          data |-> Body("map", <<>>, <<>>), uri |-> call]
    ELSE [exc |-> "none", status |-> o.status, text |-> "", data |-> o.content, uri |-> call]

ToolResult(call, o) ==
    IF o.t = "request_error"
    THEN [exc |-> "RequestError", status |-> 0, text |-> o.text, data |-> NoBody, uri |-> call]
    ELSE IF o.t = "exception"
    THEN [exc |-> "Exception", status |-> 0, text |-> o.text, data |-> NoBody, uri |-> call]
    ELSE IF ~is_success(o.status)
    THEN [exc |-> "HTTPStatusError", status |-> o.status, text |-> "", data |-> NoBody, uri |-> call]
    ELSE IF o.content.kind \in {"empty", "garbage", "null"}
    THEN [exc |-> "none", status |-> o.status, text |-> "", data |-> NoBody, uri |-> call]
    ELSE [exc |-> "none", status |-> o.status, text |-> "", data |-> o.content, uri |-> call]

fetch_taxon_data_by_name(taxon_name, o) == ToolResult(Call("taxon", taxon_name), o)
fetch_trait_data_by_ids(taxon_ids_query, o) == ToolResult(Call("trait", taxon_ids_query), o)

\* ------------------------------------------------------- response models
\* model_validate: [ok, root].  A valid body is rebuilt from model objects
\* (TaxonData, TraitData, ...), so root differs from the raw body.
AllKind(vals, kinds) == \A i \in 1..Len(vals) : vals[i].kind \in kinds
Rebuilt(vals, model) == [i \in 1..Len(vals) |-> Scalar(model)]

\* a root of Dict[..., Any]: every mapping validates
TaxonDataResponse_model_validate_any_mapping(raw) ==
    IF raw.kind = "map"
    THEN [ok |-> TRUE, root |-> Body("map", raw.keys, Rebuilt(raw.vals, "TaxonData"))]
    ELSE [ok |-> FALSE, root |-> NoBody]

TaxonDataResponse_model_validate(raw) ==
    IF raw.kind = "map" /\ AllKind(raw.vals, {"rec_ok"})
    THEN [ok |-> TRUE, root |-> Body("map", raw.keys, Rebuilt(raw.vals, "TaxonData"))]
    ELSE IF raw.kind = "list" /\ AllKind(raw.vals, {"rec_ok"})
    THEN [ok |-> TRUE, root |-> Body("list", <<>>, Rebuilt(raw.vals, "TaxonData"))]
    ELSE IF raw.kind = "list" /\ AllKind(raw.vals, {"rec_ok", "rec_min"})
    THEN [ok |-> TRUE, root |-> Body("list", <<>>, Rebuilt(raw.vals, "TaxonDataMinimal"))]
    ELSE [ok |-> FALSE, root |-> NoBody]

AllLists(vals) == AllKind(vals, {"list"})
AllElems(vals, kinds) ==
    \A i \in 1..Len(vals) : \A j \in 1..Len(vals[i].elems) : vals[i].elems[j] \in kinds
RebuiltLists(vals, model) ==
    [i \in 1..Len(vals) |-> ListOf([j \in 1..Len(vals[i].elems) |-> model])]

TraitDataResponse_model_validate(raw) ==
    IF raw.kind \in {"map", "list"} /\ AllLists(raw.vals) /\ AllElems(raw.vals, {"rec_ok"})
    THEN [ok |-> TRUE, root |-> Body(raw.kind, raw.keys, RebuiltLists(raw.vals, "TraitData"))]
    ELSE IF raw.kind \in {"map", "list"} /\ AllLists(raw.vals)
            /\ AllElems(raw.vals, {"rec_ok", "rec_min"})
    THEN [ok |-> TRUE, root |-> Body(raw.kind, raw.keys, RebuiltLists(raw.vals, "TraitDataMinimal"))]
    ELSE [ok |-> FALSE, root |-> NoBody]

\* ----------------------------------------------------------------- counters
\* no isinstance guard: a list counts its items and anything else one record
_count_taxon_records_unguarded(taxon_data_root) ==
    IF taxon_data_root.kind = "map" THEN Len(taxon_data_root.keys)
    ELSE IF taxon_data_root.kind = "list" THEN Len(taxon_data_root.vals)
    ELSE 1

_count_taxon_records(taxon_data_root) ==
    IF taxon_data_root.kind # "map" THEN 0 ELSE Len(taxon_data_root.keys)

\* a value that is not a list counts as one record
RECURSIVE SumListLens_single_as_one(_)
SumListLens_single_as_one(vals) ==
    IF vals = <<>> THEN 0
    ELSE (IF Head(vals).kind = "list" THEN Len(Head(vals).elems) ELSE 1)
         + SumListLens_single_as_one(Tail(vals))

RECURSIVE SumListLens(_)
SumListLens(vals) ==
    IF vals = <<>> THEN 0
    ELSE (IF Head(vals).kind = "list" THEN Len(Head(vals).elems) ELSE 0)
         + SumListLens(Tail(vals))

_count_trait_records(trait_data_root) ==
    IF trait_data_root.kind # "map" THEN 0 ELSE SumListLens(trait_data_root.vals)

\* ----------------------------------------------------------------- messages
\* A text is its fixed phrase plus the values interpolated into it:
\* about (the step prefix or the id string), status, detail (reason phrase
\* or str(e)) and url.
ForName(name) == [by |-> "name", v |-> name]
ForIds(ids) == [by |-> "ids", v |-> ids]
NoUrl == [api |-> "none", arg |-> <<>>, query |-> <<>>]

ReasonPhrase(status) ==
    IF status = 404 THEN "Not Found"
    ELSE IF status = 500 THEN "Internal Server Error"
    ELSE "OK"

ProcessMessage(summary, about) ==
    [type |-> "process", summary |-> summary, about |-> about]

TextMessage(text, about, status, detail, url) ==
    [type |-> "text", text |-> text, about |-> about,
     status |-> status, detail |-> detail, url |-> url]

ArtifactMessage(description, about, uris, metadata) ==
    [type |-> "artifact", mimetype |-> "application/json",
     description |-> description, about |-> about, uris |-> uris,
     metadata |-> metadata]

quote(uri) == [quoted |-> TRUE, of |-> uri]

_generate_summary_text(data_root, count, query_identifier, data_type) ==
    IF count = 0
    THEN IF data_type = "taxon"
         THEN TextMessage("No taxon records found", ForName(query_identifier), 0, "", NoUrl)
         ELSE TextMessage("No trait records found", ForIds(query_identifier), 0, "", NoUrl)
    ELSE IF data_type = "taxon"
    THEN TextMessage("Found taxon record(s)", ForName(query_identifier), count, "", NoUrl)
    ELSE TextMessage("Retrieved trait record(s)", ForIds(query_identifier), count, "", NoUrl)

\* the except-clauses with one generic text for every exception
ToolErrorMessage_generic(step, about, r) ==
    TextMessage("Error calling " \o step \o " data tool", about, 0, "", NoUrl)

\* the text of the except-clauses around one tool call
ToolErrorMessage(step, about, r) ==
    IF r.exc = "HTTPStatusError"
    THEN TextMessage("API error fetching " \o step \o " data", about,
                     r.status, ReasonPhrase(r.status), r.uri)
    ELSE IF r.exc = "RequestError"
    THEN TextMessage("Request error fetching " \o step \o " data", about, 0, r.text, r.uri)
    ELSE TextMessage("Error calling " \o step \o " data tool", about, 0, r.text, NoUrl)

\* ------------------------------------------------- TraitBankAgent.fetch_data
\* A run is [pc, locals, calls, inflight, out].
Yield(run, msg) == [run EXCEPT !.out = Append(@, msg)]

\* return without the yield
Fail_silently(run, msg) == [run EXCEPT !.pc = "end"]

\* the failure text replaces what was emitted before it
Fail_dropping_output(run, msg) == [run EXCEPT !.out = <<msg>>, !.pc = "end"]

\* the failed step is tried once more: the last call is issued again
Fail_retrying(run, msg) ==
    IF run.calls = <<>>
    THEN [run EXCEPT !.out = Append(@, msg), !.pc = "end"]
    ELSE [run EXCEPT !.out = Append(@, msg),
                     !.calls = Append(@, run.calls[Len(run.calls)]),
                     !.inflight = {Len(run.calls) + 1},
                     !.pc = "await_" \o run.calls[Len(run.calls)].api]

\* the failure is reported and the run goes on to the trait lookup
Fail_then_trait_lookup(run, msg) ==
    IF \E i \in 1..Len(run.calls) : run.calls[i].api = "trait"
    THEN [run EXCEPT !.out = Append(@, msg), !.pc = "end"]
    ELSE [run EXCEPT !.out = Append(@, msg),
                     !.calls = Append(@, Call("trait", run.locals.query_identifier_for_traits)),
                     !.inflight = @ \cup {Len(run.calls) + 1},
                     !.pc = "await_trait"]

\* yield TextMessage(...); return
Fail(run, msg) == [run EXCEPT !.out = Append(@, msg), !.pc = "end"]

\* await self.tools.fetch_...(arg): the call goes out and the run suspends
Await(run, api, arg) ==
    [run EXCEPT !.calls = Append(@, Call(api, arg)),
                !.inflight = @ \cup {Len(run.calls) + 1},
                !.pc = "await_" \o api]

\* the call is not awaited: it stays in flight while the run goes on
Resume_without_completion(run) == [run EXCEPT !.pc = "running"]

\* the awaited call has completed
Resume(run) == [run EXCEPT !.inflight = {}, !.pc = "running"]

\* lines 249-262: the trait lookup is issued for target_taxon_ids_str
BeginTraitFetch(run) ==
    IF ~Truthy(run.locals.target_taxon_ids_str)
    THEN Fail(run, TextMessage("No target taxon IDs to fetch trait data for",
                               run.locals.prefix, 0, "", NoUrl))
    ELSE Await(Yield(run, ProcessMessage("Fetching trait data",
                                         ForIds(run.locals.query_identifier_for_traits))),
               "trait", run.locals.target_taxon_ids_str.val)

WithIds(run, ids, prefix) ==
    [run EXCEPT !.locals = [target_taxon_ids_str |-> Some(ids),
                            query_identifier_for_traits |-> ids,
                            prefix |-> prefix]]

\* an id is resolved through the taxon lookup as a name is
fetch_data_start_always_resolving(p, run) ==
    IF Truthy(p.name) \/ Truthy(p.id)
    THEN LET q == IF Truthy(p.name) THEN p.name.val ELSE p.id.val
             prefix == ForName(q)
             r1 == [run EXCEPT !.locals.prefix = prefix]
         IN Await(Yield(r1, ProcessMessage("Taxon name provided", prefix)),
                  "taxon", q)
    ELSE Fail(run, TextMessage("Internal error: No taxon name or ID was specified",
                               ForIds(<<>>), 0, "", NoUrl))

\* lines 146-162 and 233-262: up to the first network call
fetch_data_start(p, run) ==
    IF Truthy(p.name)
    THEN LET prefix == ForName(p.name.val)
             r1 == [run EXCEPT !.locals.prefix = prefix]
         IN Await(Yield(r1, ProcessMessage("Taxon name provided", prefix)),
                  "taxon", p.name.val)
    ELSE IF Truthy(p.id)
    THEN LET valid_ids == StripNonBlank(split(p.id.val))
         IN IF valid_ids = <<>>
            THEN Fail(run, TextMessage("No valid taxon IDs provided in input",
                                       ForIds(p.id.val), 0, "", NoUrl))
            ELSE LET ids == join(valid_ids)
                     r1 == WithIds(run, ids, ForIds(ids))
                 IN BeginTraitFetch(Yield(r1, ProcessMessage("Taxon ID(s) provided", ForIds(ids))))
    ELSE Fail(run, TextMessage("Internal error: No taxon name or ID was specified",
                               ForIds(<<>>), 0, "", NoUrl))

\* the ids are collected in the reverse of the mapping's order
found_taxon_ids_reversed(taxon_data_root, taxon_count) ==
    IF taxon_count > 0 /\ taxon_data_root.keys # <<>>
    THEN LET ids == StripNonBlank(taxon_data_root.keys)
         IN [i \in 1..Len(ids) |-> ids[Len(ids) + 1 - i]]
    ELSE <<>>

\* the keys are taken as they are, blank ones included
found_taxon_ids_keeping_blank(taxon_data_root, taxon_count) ==
    IF taxon_count > 0 /\ taxon_data_root.keys # <<>>
    THEN taxon_data_root.keys
    ELSE <<>>

\* lines 199-201: the ids taken from the keys of the validated mapping
found_taxon_ids(taxon_data_root, taxon_count) ==
    IF taxon_count > 0 /\ taxon_data_root.keys # <<>>
    THEN StripNonBlank(taxon_data_root.keys)
    ELSE <<>>

\* lines 163-232 and 249-262: from the return of the taxon lookup (result r)
\* up to the trait lookup
fetch_data_after_taxon(p, suspended, r) ==
    LET run == Resume(suspended)
        prefix == run.locals.prefix
    IN IF r.exc # "none"
       THEN Fail(run, ToolErrorMessage("taxon", prefix, r))
       ELSE IF r.data.kind = "none"
       THEN Fail(run, TextMessage("No data returned from taxon search API",
                                  prefix, 0, "", NoUrl))
       ELSE LET v == TaxonDataResponse_model_validate(r.data)
            IN IF ~v.ok
               THEN Fail(run, TextMessage("Warning: Taxon API response validation failed",
                                          prefix, 0, "ValidationError", NoUrl))
               ELSE
    LET taxon_data_root == v.root
        taxon_count == _count_taxon_records(taxon_data_root)
        found == found_taxon_ids(taxon_data_root, taxon_count)
        taxon_metadata ==
            [taxon_name_query |-> p.name.val,
             query_params |-> _get_query_params("taxon"),
             result_count |-> taxon_count,
             validated |-> TRUE,
             retrieved_taxon_ids |-> found,
             taxon_data_root |-> taxon_data_root]
        r1 == Yield(run, ProcessMessage("Validating taxon response", prefix))
        r2 == Yield(r1, ArtifactMessage("Taxon search results", prefix,
                                        <<quote(r.uri)>>, taxon_metadata))
        r3 == Yield(r2, _generate_summary_text(taxon_data_root, taxon_count,
                                               p.name.val, "taxon"))
    IN IF found = <<>>
       THEN Fail(r3, TextMessage("No matching taxon IDs found", prefix, 0, "", NoUrl))
       ELSE LET ids == join(found)
                r4 == WithIds(r3, ids, prefix)
            IN BeginTraitFetch(Yield(r4, ProcessMessage("Taxon ID(s) obtained", ForIds(ids))))

\* no fallback: the root stays None when validation fails
trait_root_after_validation_no_fallback(v, raw_trait_data) == v.root

\* lines 285-298: the validated root or, when validation fails, the raw body
trait_root_after_validation(v, raw_trait_data) ==
    IF v.ok THEN v.root ELSE raw_trait_data

\* the warning is given for every zero count, validated or not
fetch_data_after_trait_warning_unconditioned(suspended, r) ==
    LET run == Resume(suspended)
        qid == run.locals.query_identifier_for_traits
    IN IF r.exc # "none"
       THEN Fail(run, ToolErrorMessage("trait", ForIds(qid), r))
       ELSE IF r.data.kind = "none"
       THEN Fail(run, TextMessage("No data returned from trait API", ForIds(qid), 0, "", NoUrl))
       ELSE
    LET v == TraitDataResponse_model_validate(r.data)
        is_trait_data_validated == v.ok
        trait_data_root == trait_root_after_validation(v, r.data)
        r1 == IF v.ok
              THEN Yield(run, ProcessMessage("Validating trait response", ForIds(qid)))
              ELSE Yield(run, TextMessage("Warning: Trait API response validation failed",
                                          ForIds(qid), 0, "ValidationError", NoUrl))
        trait_count == _count_trait_records(trait_data_root)
        r2 == IF trait_count = 0
              THEN Yield(r1, TextMessage("No parsable trait records found in the raw (unvalidated) data",
                                         ForIds(qid), 0, "", NoUrl))
              ELSE r1
        trait_metadata ==
            [taxon_ids_queried |-> split(qid),
             query_params |-> _get_query_params("trait"),
             trait_count |-> trait_count,
             validated |-> is_trait_data_validated,
             trait_data_root |-> trait_data_root]
        r3 == Yield(r2, ArtifactMessage("Trait data for taxon ID(s)", ForIds(qid),
                                        <<quote(r.uri)>>, trait_metadata))
        r4 == Yield(r3, _generate_summary_text(trait_data_root, trait_count, qid, "trait"))
        r5 == Yield(r4, ProcessMessage("Trait data fetch completed", ForIds(qid)))
    IN IF trait_data_root.kind = "none"
       THEN Fail(r1, TextMessage("Trait data is unexpectedly None after validation attempt",
                                 ForIds(qid), 0, "", NoUrl))
       ELSE [r5 EXCEPT !.pc = "end"]

\* lines 263-327: from the return of the trait lookup (result r) to the end
fetch_data_after_trait(suspended, r) ==
    LET run == Resume(suspended)
        qid == run.locals.query_identifier_for_traits
    IN IF r.exc # "none"
       THEN Fail(run, ToolErrorMessage("trait", ForIds(qid), r))
       ELSE IF r.data.kind = "none"
       THEN Fail(run, TextMessage("No data returned from trait API", ForIds(qid), 0, "", NoUrl))
       ELSE
    LET v == TraitDataResponse_model_validate(r.data)
        is_trait_data_validated == v.ok
        trait_data_root == trait_root_after_validation(v, r.data)
        r1 == IF v.ok
              THEN Yield(run, ProcessMessage("Validating trait response", ForIds(qid)))
              ELSE Yield(run, TextMessage("Warning: Trait API response validation failed",
                                          ForIds(qid), 0, "ValidationError", NoUrl))
        trait_count == _count_trait_records(trait_data_root)
        r2 == IF trait_count = 0 /\ ~is_trait_data_validated
              THEN Yield(r1, TextMessage("No parsable trait records found in the raw (unvalidated) data",
                                         ForIds(qid), 0, "", NoUrl))
              ELSE r1
        trait_metadata ==
            [taxon_ids_queried |-> split(qid),
             query_params |-> _get_query_params("trait"),
             trait_count |-> trait_count,
             validated |-> is_trait_data_validated,
             trait_data_root |-> trait_data_root]
        r3 == Yield(r2, ArtifactMessage("Trait data for taxon ID(s)", ForIds(qid),
                                        <<quote(r.uri)>>, trait_metadata))
        r4 == Yield(r3, _generate_summary_text(trait_data_root, trait_count, qid, "trait"))
        r5 == Yield(r4, ProcessMessage("Trait data fetch completed", ForIds(qid)))
    IN IF trait_data_root.kind = "none"
       THEN Fail(r1, TextMessage("Trait data is unexpectedly None after validation attempt",
                                 ForIds(qid), 0, "", NoUrl))
       ELSE [r5 EXCEPT !.pc = "end"]

\* ------------------------------------------------------------------ actions
CurrentRun ==
    [pc |-> pc, locals |-> locals, calls |-> calls, inflight |-> inflight, out |-> out]

Becomes(run) ==
    /\ pc' = run.pc
    /\ locals' = run.locals
    /\ calls' = run.calls
    /\ inflight' = run.inflight
    /\ out' = run.out
    /\ UNCHANGED <<input, params, ctorError, counter, reqs, fault>>

\* agent.fetch_data(params) runs to its first network call (or to its end)
Start ==
    /\ pc = "ready"
    /\ Becomes(fetch_data_start(params, CurrentRun))
    /\ UNCHANGED returns

\* the taxon lookup returns or raises; the run goes on to the trait lookup
TaxonReturns ==
    /\ pc = "await_taxon"
    /\ \E o \in Outcomes(TaxonBodies) :
         /\ returns' = Append(returns, o)
         /\ Becomes(fetch_data_after_taxon(
                      params, CurrentRun, fetch_taxon_data_by_name(params.name.val, o)))

\* the trait lookup returns or raises; the run goes on to its end
TraitReturns ==
    /\ pc = "await_trait"
    /\ \E o \in Outcomes(TraitBodies) :
         /\ returns' = Append(returns, o)
         /\ Becomes(fetch_data_after_trait(
                      CurrentRun,
                      fetch_trait_data_by_ids(locals.target_taxon_ids_str.val, o)))

Next == Construct \/ Start \/ TaxonReturns \/ TraitReturns

Spec == Init /\ [][Next]_vars

\* ------------------------------------------------- unexpected exceptions
\* An exception other than those of the tool calls strikes inside the try
\* block of fetch_data (line 150): while a message is being built, in a
\* handler of the inner try blocks, in validation or counting code.
Faults == {"ValueError", "RuntimeError"}
FaultInputs ==
    { [name |-> Some(<<"A">>), id |-> None],
      [name |-> None, id |-> Some(<<"9">>)],
      [name |-> None, id |-> Some(<<",">>)],
      [name |-> None, id |-> None] }

\* only a ValueError is caught; anything else leaves the generator
outer_except_value_error_only(run, exc) ==
    IF exc = "ValueError"
    THEN [run EXCEPT !.out = Append(@, TextMessage("Invalid input parameters",
                                                   run.locals.prefix, 0, exc, NoUrl)),
                     !.pc = "end"]
    ELSE [run EXCEPT !.pc = "raised"]

\* lines 329-332: the handlers of the outer try block
outer_except(run, exc) ==
    IF exc = "ValueError"
    THEN [run EXCEPT !.out = Append(@, TextMessage("Invalid input parameters",
                                                   run.locals.prefix, 0, exc, NoUrl)),
                     !.pc = "end"]
    ELSE [run EXCEPT !.out = Append(@, TextMessage("An unexpected error occurred in the agent",
                                                   run.locals.prefix, 0, exc, NoUrl)),
                     !.pc = "end"]

\* the step that would have led to run `whole` is cut after k messages in
\* all: the later yields and the next call do not happen
Cut(whole, k) ==
    [pc |-> "running", locals |-> locals, calls |-> calls, inflight |-> {},
     out |-> SubSeq(whole.out, 1, k)]

Struck(whole, exc) ==
    /\ \E k \in Len(out)..(Len(whole.out) - 1) :
         LET run == outer_except(Cut(whole, k), exc)
         IN /\ pc' = run.pc
            /\ locals' = run.locals
            /\ calls' = run.calls
            /\ inflight' = run.inflight
            /\ out' = run.out
    /\ fault' = exc
    /\ UNCHANGED <<input, params, ctorError, counter, reqs>>

FaultAtStart ==
    /\ pc = "ready"
    /\ \E exc \in Faults : Struck(fetch_data_start(params, CurrentRun), exc)
    /\ UNCHANGED returns

FaultAfterTaxon ==
    /\ pc = "await_taxon"
    /\ \E exc \in Faults, o \in Outcomes(TaxonBodies) :
         /\ returns' = Append(returns, o)
         /\ Struck(fetch_data_after_taxon(
                      params, CurrentRun, fetch_taxon_data_by_name(params.name.val, o)),
                   exc)

FaultAfterTrait ==
    /\ pc = "await_trait"
    /\ \E exc \in Faults, o \in Outcomes(TraitBodies) :
         /\ returns' = Append(returns, o)
         /\ Struck(fetch_data_after_trait(
                      CurrentRun,
                      fetch_trait_data_by_ids(locals.target_taxon_ids_str.val, o)),
                   exc)

FaultInit ==
    /\ input \in FaultInputs
    /\ params = [name |-> None, id |-> None]
    /\ ctorError = ""
    /\ pc = "new"
    /\ locals = NoLocals
    /\ calls = <<>>
    /\ inflight = {}
    /\ returns = <<>>
    /\ out = <<>>
    /\ counter = [payload |-> NoBody, mode |-> "none", result |-> 0]
    /\ reqs = <<>>
    /\ fault = ""

FaultNext ==
    \/ Construct
    \/ Start
    \/ TaxonReturns
    \/ TraitReturns
    \/ FaultAtStart
    \/ FaultAfterTaxon
    \/ FaultAfterTrait

FaultSpec == FaultInit /\ [][FaultNext]_vars

\* -------------------------------------------------- concurrent requests
\* Several fetch_data generators run on one agent.  The agent object holds
\* agent_card and tools only, and the tools hold nothing; each generator has
\* its own frame (params, target_taxon_ids_str, query_identifier_for_traits).
\* reqs[i] is [params, run, returns] of the i-th request.
ConcInputs ==
    { [name |-> Some(<<"A">>), id |-> Some(<<"9">>)],
      [name |-> None, id |-> Some(<<"9">>)],
      [name |-> None, id |-> Some(<<"4", ",", "9">>)] }
ConcParams == { check_and_prioritize_input(i).data : i \in ConcInputs }
ConcTaxonOutcomes ==
    { [t |-> "request_error", status |-> 0, text |-> "ConnectTimeout", content |-> NoBody],
      Response(200, Body("map", <<<<"9">>>>, <<Scalar("rec_ok")>>)),
      Response(200, Body("map", <<<<" ", "4">>>>, <<Scalar("rec_ok")>>)) }
ConcTraitOutcomes ==
    { Response(404, Body("empty", <<>>, <<>>)),
      Response(200, Body("map", <<TraitKey(1)>>, <<ListOf(<<"rec_ok">>)>>)) }

NewRun ==
    [pc |-> "ready", locals |-> NoLocals, calls |-> <<>>, inflight |-> {}, out |-> <<>>]

ConcInit ==
    /\ input = [name |-> None, id |-> None]
    /\ params = [name |-> None, id |-> None]
    /\ ctorError = ""
    /\ pc = "new"
    /\ locals = NoLocals
    /\ calls = <<>>
    /\ inflight = {}
    /\ returns = <<>>
    /\ out = <<>>
    /\ counter = [payload |-> NoBody, mode |-> "none", result |-> 0]
    /\ reqs \in [1..MaxReqs -> [params : ConcParams, run : {NewRun}, returns : {<<>>}]]
    /\ fault = ""

\* every request resumes on the locals of the first one, as if they were
\* attributes of the agent
Frame_sharing_locals(i) == [reqs[i].run EXCEPT !.locals = reqs[1].run.locals]

\* the frame a request's generator resumes on: its own
Frame(i) == reqs[i].run

ReqBecomes(i, run, rets) ==
    /\ reqs' = [reqs EXCEPT ![i].run = run, ![i].returns = rets]
    /\ UNCHANGED <<input, params, ctorError, pc, locals, calls, inflight, returns,
                   out, counter, fault>>

ReqStart(i) ==
    /\ reqs[i].run.pc = "ready"
    /\ ReqBecomes(i, fetch_data_start(reqs[i].params, Frame(i)), reqs[i].returns)

ReqTaxonReturns(i) ==
    /\ reqs[i].run.pc = "await_taxon"
    /\ \E o \in ConcTaxonOutcomes :
         ReqBecomes(i,
                    fetch_data_after_taxon(
                        reqs[i].params, Frame(i),
                        fetch_taxon_data_by_name(reqs[i].params.name.val, o)),
                    Append(reqs[i].returns, o))

ReqTraitReturns(i) ==
    /\ reqs[i].run.pc = "await_trait"
    /\ \E o \in ConcTraitOutcomes :
         ReqBecomes(i,
                    fetch_data_after_trait(
                        Frame(i),
                        fetch_trait_data_by_ids(Frame(i).locals.target_taxon_ids_str.val, o)),
                    Append(reqs[i].returns, o))

ConcNext ==
    \E i \in 1..MaxReqs : ReqStart(i) \/ ReqTaxonReturns(i) \/ ReqTraitReturns(i)

ConcSpec == ConcInit /\ [][ConcNext]_vars

\* ------------------------------------------------------------------- claims
Last(s) == s[Len(s)]
Indices(s, P(_)) == {i \in 1..Len(s) : P(s[i])}

IsTaxonCall(c) == c.api = "taxon"
IsTraitCall(c) == c.api = "trait"
IsArtifact(m) == m.type = "artifact"
IsTaxonArtifact(m) == m.type = "artifact" /\ m.description = "Taxon search results"
IsTraitArtifact(m) == m.type = "artifact" /\ m.description = "Trait data for taxon ID(s)"
IsCompletion(m) == m.type = "process" /\ m.summary = "Trait data fetch completed"

\* the texts that report a failed step
FailureTexts ==
    {"API error fetching taxon data", "Request error fetching taxon data",
     "Error calling taxon data tool", "No data returned from taxon search API",
     "Warning: Taxon API response validation failed", "No matching taxon IDs found",
     "No valid taxon IDs provided in input",
     "Internal error: No taxon name or ID was specified",
     "No target taxon IDs to fetch trait data for",
     "API error fetching trait data", "Request error fetching trait data",
     "Error calling trait data tool", "No data returned from trait API",
     "Trait data is unexpectedly None after validation attempt"}
IsFailure(m) == m.type = "text" /\ m.text \in FailureTexts

Done == out # <<>> /\ IsCompletion(Last(out)) /\ Cardinality(Indices(out, IsCompletion)) = 1
Failed == out # <<>> /\ IsFailure(Last(out)) /\ Indices(out, IsCompletion) = {}

BothSupplied == Truthy(input.name) /\ Truthy(input.id)
NeitherSupplied == ~Truthy(input.name) /\ ~Truthy(input.id)

\* C1: when both a name and an id are supplied, the constructed request
\* carries no id, the first call is the taxon lookup for the name, and a trait
\* lookup is issued only for the ids of an emitted taxon artifact; when name
\* resolution yields no ids the run has ended with that one call.
C1_NamePriority ==
    (BothSupplied /\ pc # "new") =>
        /\ pc # "rejected"
        /\ params.name = input.name
        /\ params.id = None
        /\ \A i \in 1..Len(calls) :
              IF i = 1
              THEN IsTaxonCall(calls[i]) /\ calls[i].arg = input.name.val
              ELSE /\ i = 2
                   /\ IsTraitCall(calls[i])
                   /\ \E j \in 1..Len(out) :
                        /\ IsTaxonArtifact(out[j])
                        /\ out[j].metadata.retrieved_taxon_ids # <<>>
                        /\ calls[i].arg = join(out[j].metadata.retrieved_taxon_ids)
        /\ (pc = "end" /\ Indices(out, IsTaxonArtifact) = {}) => Len(calls) = 1

\* a request with both fields whose taxon lookup failed: the run is over
\* after the one call
C1_Witness ==
    /\ BothSupplied
    /\ pc = "end"
    /\ Len(calls) = 1
    /\ Len(returns) = 1
    /\ returns[1].t = "response" /\ returns[1].status = 404
    /\ Failed

\* C2: a request with neither a name nor an id is rejected by the constructor
\* with the error 'Either "name" or "id" must be provided.', and no call is
\* made and no message emitted for it.
C2_RejectedBeforeAnyCall ==
    (NeitherSupplied /\ pc # "new") =>
        /\ pc = "rejected"
        /\ ctorError = MissingInputError
        /\ calls = <<>>
        /\ out = <<>>

C2_Witness ==
    /\ input.name = Some(<<>>)
    /\ input.id = None
    /\ pc = "rejected"
    /\ ctorError = MissingInputError

\* C3: a run of a valid request that has ended has emitted exactly one of
\* the completion message (Done) and a closing failure text (Failed); a run
\* that has not ended can take a step, and a run makes at most two calls.
C3_ExactlyOneTerminalOutcome ==
    (pc \notin {"new", "rejected"}) =>
        /\ pc \in {"ready", "await_taxon", "await_trait", "end"}
        /\ pc = "end" => ((Done \/ Failed) /\ ~(Done /\ Failed))
        /\ pc # "end" => (ENABLED Next /\ ~Done /\ ~Failed)
        /\ Len(calls) <= 2

\* a run that ended Done after a trait body that failed validation
C3_Witness ==
    /\ pc = "end"
    /\ Done
    /\ Len(returns) = 2
    /\ \E i \in 1..Len(out) : IsTraitArtifact(out[i]) /\ ~out[i].metadata.validated

\* ---- the input/output relations the claims state, written without the
\* ---- operators of the model
CommasOf(s) == {i \in 1..Len(s) : s[i] = ","}
SegmentStarts(s) == {1} \cup {i + 1 : i \in CommasOf(s)}
SegmentEnd(s, a) ==
    LET later == {i \in CommasOf(s) : i >= a}
    IN IF later = {} THEN Len(s) ELSE (CHOOSE i \in later : \A j \in later : i <= j) - 1
Segment(s, a) == SubSeq(s, a, SegmentEnd(s, a))
Trimmed(s) ==
    LET solid == {i \in 1..Len(s) : s[i] # " "}
    IN IF solid = {} THEN <<>>
       ELSE SubSeq(s, CHOOSE i \in solid : \A j \in solid : i <= j,
                      CHOOSE i \in solid : \A j \in solid : i >= j)
\* the k-th element of a set of naturals
Nth(S, k) == CHOOSE a \in S : Cardinality({b \in S : b <= a}) = k

\* the stripped, non-blank comma-separated segments of s, in order
ExpectedIds(s) ==
    LET solid == {a \in SegmentStarts(s) : Trimmed(Segment(s, a)) # <<>>}
    IN [k \in 1..Cardinality(solid) |-> Trimmed(Segment(s, Nth(solid, k)))]

\* the stripped, non-blank entries of a list of keys, in order
ExpectedKeyIds(keys) ==
    LET solid == {i \in 1..Len(keys) : Trimmed(keys[i]) # <<>>}
    IN [k \in 1..Cardinality(solid) |-> Trimmed(keys[Nth(solid, k)])]

RECURSIVE CommaJoined(_, _)
CommaJoined(l, n) ==
    IF n = 0 THEN <<>>
    ELSE IF n = 1 THEN l[1]
    ELSE CommaJoined(l, n - 1) \o <<",">> \o l[n]

\* what came back for the k-th call
IsHttpError(o) == o.t = "response" /\ o.status \notin 200..299
IsNetworkError(o) == o.t = "request_error"
HasBody(o) ==
    o.t = "response" /\ o.status \in 200..299
    /\ o.content.kind \in {"map", "list", "str", "num"}
TaxonSchemaFits(b) ==
    \/ b.kind = "map" /\ \A i \in 1..Len(b.vals) : b.vals[i].kind = "rec_ok"
    \/ b.kind = "list" /\ \A i \in 1..Len(b.vals) : b.vals[i].kind \in {"rec_ok", "rec_min"}
TraitSchemaFits(b) ==
    /\ b.kind \in {"map", "list"}
    /\ \A i \in 1..Len(b.vals) :
          /\ b.vals[i].kind = "list"
          /\ \A j \in 1..Len(b.vals[i].elems) : b.vals[i].elems[j] \in {"rec_ok", "rec_min"}

IdPath == ~Truthy(input.name) /\ Truthy(input.id)
NamePath == Truthy(input.name)

\* C4: on the id path the input is split on commas, each segment stripped and
\* blank segments dropped, in order; with no segment left the run fails with
\* the 'No valid taxon IDs' text and makes no call, otherwise the one call so
\* far is the trait lookup for exactly the comma-joined ids.
C4_IdParsing ==
    (IdPath /\ pc \notin {"new", "ready"}) =>
        LET ids == ExpectedIds(input.id.val)
        IN IF ids = <<>>
           THEN /\ pc = "end"
                /\ calls = <<>>
                /\ Len(out) = 1
                /\ out[1].type = "text"
                /\ out[1].text = "No valid taxon IDs provided in input"
           ELSE /\ Len(calls) = 1
                /\ IsTraitCall(calls[1])
                /\ calls[1].arg = CommaJoined(ids, Len(ids))

\* id=" 9," is looked up as "9"
C4_Witness ==
    /\ input.name = None
    /\ input.id = Some(<<" ", "9", ",">>)
    /\ Len(calls) = 1
    /\ IsTraitCall(calls[1])
    /\ calls[1].arg = <<"9">>

\* C5: when the taxon lookup fails with an HTTP status error or a network
\* error, the run has ended with a text that names the step and carries the
\* status code, respectively the error text; no artifact was emitted and no
\* trait lookup issued.
C5_TaxonTransportFailure ==
    (NamePath /\ Len(returns) >= 1 /\ (IsHttpError(returns[1]) \/ IsNetworkError(returns[1]))) =>
        /\ pc = "end"
        /\ Len(calls) = 1
        /\ IsTaxonCall(calls[1])
        /\ Indices(out, IsArtifact) = {}
        /\ Failed
        /\ Last(out).about = ForName(input.name.val)
        /\ IF IsHttpError(returns[1])
           THEN /\ Last(out).text = "API error fetching taxon data"
                /\ Last(out).status = returns[1].status
           ELSE /\ Last(out).text = "Request error fetching taxon data"
                /\ Last(out).detail = returns[1].text

\* the taxon lookup answered 500
C5_Witness ==
    /\ NamePath
    /\ Len(returns) = 1
    /\ returns[1].t = "response" /\ returns[1].status = 500
    /\ pc = "end"
    /\ Last(out).status = 500

\* C6: when the taxon body does not fit the schema, the run has ended at the
\* taxon step: no ids were extracted, no artifact emitted, no trait lookup
\* issued.
C6_TaxonValidationFailureHalts ==
    (NamePath /\ Len(returns) >= 1 /\ HasBody(returns[1])
        /\ ~TaxonSchemaFits(returns[1].content)) =>
        /\ pc = "end"
        /\ Len(calls) = 1
        /\ locals.target_taxon_ids_str = None
        /\ Indices(out, IsArtifact) = {}
        /\ Failed
        /\ Last(out).text = "Warning: Taxon API response validation failed"

\* a mapping with a usable key whose record does not fit
C6_Witness ==
    /\ NamePath
    /\ Len(returns) = 1
    /\ HasBody(returns[1])
    /\ returns[1].content = Body("map", << <<"9">> >>, <<Scalar("rec_bad")>>)
    /\ pc = "end"

\* C7: when the trait body is not null and does not fit the schema, the run
\* ends Done with exactly one trait artifact, whose validation flag is false,
\* whose payload is the raw body and whose count is the counter's value on
\* the raw body.
C7_TraitValidationFallback ==
    (calls # <<>> /\ IsTraitCall(Last(calls)) /\ Len(returns) = Len(calls)
        /\ HasBody(Last(returns)) /\ ~TraitSchemaFits(Last(returns).content)) =>
        /\ pc = "end"
        /\ Done
        /\ Cardinality(Indices(out, IsTraitArtifact)) = 1
        /\ \A i \in Indices(out, IsTraitArtifact) :
              /\ out[i].metadata.validated = FALSE
              /\ out[i].metadata.trait_data_root = Last(returns).content
              /\ out[i].metadata.trait_count = _count_trait_records(Last(returns).content)

\* a trait mapping whose one record does not fit: counted 1, flagged unvalidated
C7_Witness ==
    /\ pc = "end"
    /\ returns # <<>>
    /\ Last(returns).content = Body("map", << <<"9">> >>, <<ListOf(<<"rec_bad">>)>>)
    /\ \E i \in Indices(out, IsTraitArtifact) :
          out[i].metadata.trait_count = 1 /\ ~out[i].metadata.validated

\* C8: when the name resolved to ids and the trait lookup fails with an HTTP
\* status error or a network error, the run has ended with a trait-step text
\* carrying the queried id string and the status code, respectively the error
\* text; there is no trait artifact, and the taxon artifact with the resolved
\* ids is still in the output.
C8_TraitFailureKeepsTaxonArtifact ==
    (NamePath /\ Len(returns) = 2 /\ (IsHttpError(returns[2]) \/ IsNetworkError(returns[2]))) =>
        /\ pc = "end"
        /\ Len(calls) = 2
        /\ Failed
        /\ Last(out).about = ForIds(calls[2].arg)
        /\ IF IsHttpError(returns[2])
           THEN /\ Last(out).text = "API error fetching trait data"
                /\ Last(out).status = returns[2].status
           ELSE /\ Last(out).text = "Request error fetching trait data"
                /\ Last(out).detail = returns[2].text
        /\ Indices(out, IsTraitArtifact) = {}
        /\ Cardinality(Indices(out, IsTaxonArtifact)) = 1
        /\ \A j \in Indices(out, IsTaxonArtifact) :
              LET ids == out[j].metadata.retrieved_taxon_ids
              IN /\ ids # <<>>
                 /\ ids = ExpectedKeyIds(returns[1].content.keys)
                 /\ calls[2].arg = CommaJoined(ids, Len(ids))

\* the name resolved to "9" and the trait lookup for "9" answered 404
C8_Witness ==
    /\ NamePath
    /\ Len(returns) = 2
    /\ returns[2].t = "response" /\ returns[2].status = 404
    /\ calls[2].arg = <<"9">>
    /\ \E j \in Indices(out, IsTaxonArtifact) :
          out[j].metadata.retrieved_taxon_ids = << <<"9">> >>
    /\ Last(out).text = "API error fetching trait data"

\* C9: at most one call is in flight, and on the name path a trait lookup is
\* issued only as the second call, after the taxon lookup has completed with
\* a 2xx body that fits the schema and holds at least one non-blank key.
C9_CallOrdering ==
    /\ Cardinality(inflight) <= 1
    /\ NamePath =>
         \A i \in 1..Len(calls) :
            IsTraitCall(calls[i]) =>
               /\ i = 2
               /\ IsTaxonCall(calls[1])
               /\ 1 \notin inflight
               /\ Len(returns) >= 1
               /\ HasBody(returns[1])
               /\ TaxonSchemaFits(returns[1].content)
               /\ ExpectedKeyIds(returns[1].content.keys) # <<>>

\* the trait lookup is in flight after the taxon lookup has returned
C9_Witness ==
    /\ NamePath
    /\ pc = "await_trait"
    /\ Len(calls) = 2
    /\ inflight = {2}
    /\ Len(returns) = 1

\* C10: each lookup is issued at most once in a run, and a call that ends in
\* a transport failure or a non-2xx status is the last call of the run, which
\* has ended.
C10_NoRetries ==
    /\ Cardinality(Indices(calls, IsTaxonCall)) <= 1
    /\ Cardinality(Indices(calls, IsTraitCall)) <= 1
    /\ Len(calls) <= 2
    /\ \A k \in 1..Len(returns) :
          (returns[k].t # "response" \/ IsHttpError(returns[k])) =>
              /\ pc = "end"
              /\ Len(calls) = k
              /\ Len(returns) = k

\* the second call of a run failed in the transport and the run is over
C10_Witness ==
    /\ Len(calls) = 2
    /\ Len(returns) = 2
    /\ IsNetworkError(returns[2])
    /\ pc = "end"

AllOnes(q, flags) == DOMAIN q = flags /\ \A k \in flags : q[k] = "1"

\* C14: every taxon lookup is sent exactly exact=1, verbose=1, assoc=1 and
\* every trait lookup exactly verbose=1, assoc=1, whatever the request and
\* whatever was called before; a taxon artifact records the same flags.
C14_QueryParameterPolicy ==
    /\ \A i \in 1..Len(calls) :
          /\ IsTaxonCall(calls[i]) => AllOnes(calls[i].query, {"exact", "verbose", "assoc"})
          /\ IsTraitCall(calls[i]) => AllOnes(calls[i].query, {"verbose", "assoc"})
    /\ \A i \in 1..Len(out) :
          IsTaxonArtifact(out[i]) =>
              AllOnes(out[i].metadata.query_params, {"exact", "verbose", "assoc"})

\* both lookups have been issued in one run
C14_Witness ==
    /\ Len(calls) = 2
    /\ IsTaxonCall(calls[1])
    /\ IsTraitCall(calls[2])
    /\ "exact" \notin DOMAIN calls[2].query

\* the k-th call raised: a network error, another exception or a non-2xx status
CallRaised(o) == o.t \in {"request_error", "exception"} \/ IsHttpError(o)

EndedWithText == pc = "end" /\ inflight = {} /\ out # <<>> /\ Last(out).type = "text"

\* C15: no exception leaves fetch_data.  A call that raised ends the run with
\* a text message and no later call; an exception that struck anywhere else in
\* the pipeline, the building of an error text included, ends the run with the
\* text of the outer handlers ('Invalid input parameters' for a ValueError,
\* 'An unexpected error occurred in the agent' otherwise) naming it, and no
\* step follows.
C15_NothingIsReRaised ==
    /\ pc \in {"new", "rejected", "ready", "await_taxon", "await_trait", "end"}
    /\ \A i \in 1..Len(returns) :
          CallRaised(returns[i]) =>
              /\ EndedWithText
              /\ i = Len(calls)
              /\ fault = "" => IsFailure(Last(out))
    /\ fault # "" =>
          /\ EndedWithText
          /\ Last(out).text = IF fault = "ValueError"
                              THEN "Invalid input parameters"
                              ELSE "An unexpected error occurred in the agent"
          /\ Last(out).detail = fault
          /\ \A i \in 1..(Len(out) - 1) : ~IsFailure(out[i])
          /\ Len(returns) = Len(calls)
          /\ ~ENABLED FaultNext

\* a RuntimeError struck while the text for a network error was being built
C15_Witness ==
    /\ fault = "RuntimeError"
    /\ Len(returns) = 1
    /\ returns[1].t = "request_error"
    /\ Len(out) = 2
    /\ Last(out).text = "An unexpected error occurred in the agent"

\* a 2xx response whose content is empty or the JSON null
NullBody(o) ==
    o.t = "response" /\ o.status \in 200..299 /\ o.content.kind \in {"empty", "null"}

\* C16: a taxon lookup answered 2xx with a null or empty body ends the run
\* Failed with the 'No data returned from taxon search API' text, no taxon
\* artifact and no trait lookup; a trait lookup answered so ends the run
\* Failed with the 'No data returned from trait API' text and no trait artifact.
C16_NullBodyFails ==
    \A i \in 1..Len(returns) :
        NullBody(returns[i]) =>
            /\ i = Len(calls)
            /\ pc = "end"
            /\ Failed
            /\ IsTaxonCall(calls[i]) =>
                  /\ Last(out).text = "No data returned from taxon search API"
                  /\ Indices(out, IsTaxonArtifact) = {}
                  /\ Indices(calls, IsTraitCall) = {}
            /\ IsTraitCall(calls[i]) =>
                  /\ Last(out).text = "No data returned from trait API"
                  /\ Indices(out, IsTraitArtifact) = {}

\* the taxon lookup came back 200 with empty content
C16_Witness ==
    /\ Len(returns) = 1
    /\ IsTaxonCall(calls[1])
    /\ returns[1].status = 200
    /\ returns[1].content.kind = "empty"
    /\ Last(out).text = "No data returned from taxon search API"

\* the taxon lookup returned a body that fits the schema and has no key that
\* is non-blank after stripping
NoIdsResolved ==
    /\ returns # <<>>
    /\ IsTaxonCall(calls[1])
    /\ HasBody(returns[1])
    /\ TaxonSchemaFits(returns[1].content)
    /\ ExpectedKeyIds(returns[1].content.keys) = <<>>

NoIdsOutcome(count) ==
    /\ pc = "end"
    /\ Failed
    /\ Last(out).text = "No matching taxon IDs found"
    /\ Len(calls) = 1
    /\ Cardinality(Indices(out, IsTaxonArtifact)) = 1
    /\ \A i \in Indices(out, IsTaxonArtifact) :
          /\ out[i].metadata.validated
          /\ out[i].metadata.retrieved_taxon_ids = <<>>
          /\ out[i].metadata.result_count = count

\* C17: when the taxon body validates and no key is left after stripping and
\* dropping blanks, one taxon artifact is emitted with validated true, no
\* retrieved ids and a result count equal to the number of keys of the
\* mapping (0 for {} and for any list), and the run ends Failed with the
\* 'No matching taxon IDs found' text without a trait lookup.
C17_NoIdsResolved ==
    NoIdsResolved =>
        NoIdsOutcome(IF returns[1].content.kind = "map"
                     THEN Len(returns[1].content.keys) ELSE 0)

\* C17 as stated: the result count of that artifact is 0
C17_AsStated == NoIdsResolved => NoIdsOutcome(0)

\* the body {} ended the run after a taxon artifact with result count 0
C17_Witness ==
    /\ NoIdsResolved
    /\ returns[1].content = Body("map", <<>>, <<>>)
    /\ NoIdsOutcome(0)

\* C18: a request with an id and no name never issues the taxon lookup and
\* emits no taxon artifact, and its first call is the trait lookup for the
\* given ids; a name-path run that reaches Done has emitted exactly one taxon
\* artifact, before its single trait artifact.
C18_TaxonStepOnlyOnNamePath ==
    /\ IdPath =>
          /\ Indices(calls, IsTaxonCall) = {}
          /\ Indices(out, IsTaxonArtifact) = {}
          /\ calls # <<>> =>
                /\ IsTraitCall(calls[1])
                /\ calls[1].arg = CommaJoined(ExpectedIds(input.id.val),
                                              Len(ExpectedIds(input.id.val)))
          /\ (pc \notin {"new", "ready"} /\ ExpectedIds(input.id.val) # <<>>) => calls # <<>>
    /\ (NamePath /\ Done) =>
          /\ Cardinality(Indices(out, IsTaxonArtifact)) = 1
          /\ Cardinality(Indices(out, IsTraitArtifact)) = 1
          /\ \A i \in Indices(out, IsTaxonArtifact) :
                \A j \in Indices(out, IsTraitArtifact) : i < j

\* an id-path run that reached Done on its one call
C18_Witness ==
    /\ IdPath
    /\ Done
    /\ Len(calls) = 1
    /\ IsTraitCall(calls[1])
    /\ Cardinality(Indices(out, IsTraitArtifact)) = 1

\* the run of a request with parameters p processed alone, given the answers
\* rets to its calls in order
Alone(p, rets) ==
    LET r0 == fetch_data_start(p, NewRun)
        after(run, o) ==
            IF run.pc = "await_taxon"
            THEN fetch_data_after_taxon(p, run, fetch_taxon_data_by_name(p.name.val, o))
            ELSE fetch_data_after_trait(
                     run, fetch_trait_data_by_ids(run.locals.target_taxon_ids_str.val, o))
    IN IF Len(rets) = 0 THEN r0
       ELSE IF Len(rets) = 1 THEN after(r0, rets[1])
       ELSE after(after(r0, rets[1]), rets[2])

\* C19: with several requests interleaved at their suspension points, the
\* messages, calls and position of each request are those of the same request
\* run alone on the answers its own calls received.
C19_RequestIsolation ==
    \A i \in DOMAIN reqs :
        /\ Len(reqs[i].returns) <= 2
        /\ reqs[i].run.pc = "ready" => (reqs[i].run = NewRun /\ reqs[i].returns = <<>>)
        /\ reqs[i].run.pc # "ready" => reqs[i].run = Alone(reqs[i].params, reqs[i].returns)

\* the first request resolved its name and is suspended in its trait lookup
\* while the second, for other ids, has run to its end
C19_Witness ==
    /\ reqs # <<>>
    /\ reqs[1].run.pc = "await_trait"
    /\ Len(reqs[1].returns) = 1
    /\ reqs[2].params.id = Some(<<"4", ",", "9">>)
    /\ reqs[2].run.pc = "end"
    /\ Len(reqs[2].run.out) > 2

\* C20: a failure text is the last message of its run: the run has ended,
\* no call is in flight or can be issued, and as many calls have returned as
\* were issued; a rejected request has no message and no call at all.
C20_FailedIsAbsorbing ==
    /\ \A i \in 1..Len(out) :
          IsFailure(out[i]) =>
              /\ i = Len(out)
              /\ pc = "end"
              /\ inflight = {}
              /\ Len(returns) = Len(calls)
              /\ ~ENABLED Next
    /\ pc = "rejected" => (out = <<>> /\ calls = <<>> /\ ~ENABLED Next)

\* the taxon step failed on validation and nothing followed
C20_Witness ==
    /\ pc = "end"
    /\ Len(calls) = 1
    /\ Len(out) = 2
    /\ Last(out).text = "Warning: Taxon API response validation failed"

\* ------------------------------------------------------- the record counters
\* The counters applied to payloads of every type: None, mappings and lists
\* (of lists of records, single records, nulls, strings, numbers), a string,
\* a number.
CountKeySeqs == { [i \in 1..n |-> TraitKey(i)] : n \in 0..MaxCountSize }
CountValues ==
    { ListOf([j \in 1..n |-> "rec_ok"]) : n \in 0..MaxCountLen }
    \cup { Scalar(k) : k \in {"null", "str", "num", "rec_ok"} }
CountPayloads ==
    { NoBody, Body("str", <<>>, <<>>), Body("num", <<>>, <<>>) }
    \cup MapsOver(CountKeySeqs, CountValues)
    \cup { Body("list", <<>>, vs) : vs \in SeqsUpTo(CountValues, MaxCountSize) }

CountInit ==
    /\ input = [name |-> None, id |-> None]
    /\ params = [name |-> None, id |-> None]
    /\ ctorError = ""
    /\ pc = "new"
    /\ locals = NoLocals
    /\ calls = <<>>
    /\ inflight = {}
    /\ returns = <<>>
    /\ out = <<>>
    /\ counter \in [payload : CountPayloads, mode : {"none"}, result : {0}]
    /\ reqs = <<>>
    /\ fault = ""

CountTaxon ==
    /\ counter.mode = "none"
    /\ counter' = [counter EXCEPT !.mode = "taxon",
                                  !.result = _count_taxon_records(counter.payload)]
    /\ UNCHANGED <<input, params, ctorError, pc, locals, calls, inflight, returns, out, reqs, fault>>

CountTrait ==
    /\ counter.mode = "none"
    /\ counter' = [counter EXCEPT !.mode = "trait",
                                  !.result = _count_trait_records(counter.payload)]
    /\ UNCHANGED <<input, params, ctorError, pc, locals, calls, inflight, returns, out, reqs, fault>>

CountNext == CountTaxon \/ CountTrait

CountSpec == CountInit /\ [][CountNext]_vars

\* the sum of w over the values, for the two weightings below
ListLenOrZero(v) == IF v.kind = "list" THEN Len(v.elems) ELSE 0
ListLenOrOne(v) ==
    IF v.kind = "list" THEN Len(v.elems) ELSE IF v.kind = "null" THEN 0 ELSE 1
RECURSIVE TotalLenOrZero(_, _)
TotalLenOrZero(vals, n) ==
    IF n = 0 THEN 0 ELSE TotalLenOrZero(vals, n - 1) + ListLenOrZero(vals[n])
RECURSIVE TotalLenOrOne(_, _)
TotalLenOrOne(vals, n) ==
    IF n = 0 THEN 0 ELSE TotalLenOrOne(vals, n - 1) + ListLenOrOne(vals[n])

Counted(mode, kind) ==
    counter.mode = mode /\ counter.payload.kind = kind

\* C11: for a mapping the taxon count is the number of keys, and the trait
\* count is the sum over the values of the length of each value that is a
\* list; a value that is not a list adds nothing.
C11_MappingCount ==
    /\ Counted("taxon", "map") => counter.result = Len(counter.payload.keys)
    /\ Counted("trait", "map") =>
          counter.result = TotalLenOrZero(counter.payload.vals, Len(counter.payload.vals))

\* C11 as stated: a value that is not a list adds 1 if it is not null
C11_AsStated ==
    /\ Counted("taxon", "map") => counter.result = Len(counter.payload.keys)
    /\ Counted("trait", "map") =>
          counter.result = TotalLenOrOne(counter.payload.vals, Len(counter.payload.vals))

\* the trait payload {"9": [a, b, c], "99": "text"} counts 3
C11_Witness ==
    /\ counter.mode = "trait"
    /\ counter.payload =
          Body("map", <<TraitKey(1), TraitKey(2)>>,
               <<ListOf(<<"rec_ok", "rec_ok", "rec_ok">>), Scalar("str")>>)
    /\ counter.result = 3

\* C12: for a list the taxon count is its length, and the trait count is the
\* sum of the lengths of the elements if the first element is a list (null
\* elements adding nothing), else the length of the list.
C12_SequenceCount ==
    /\ Counted("taxon", "list") => counter.result = Len(counter.payload.vals)
    /\ Counted("trait", "list") =>
          counter.result =
             IF counter.payload.vals # <<>> /\ counter.payload.vals[1].kind = "list"
             THEN TotalLenOrZero(counter.payload.vals, Len(counter.payload.vals))
             ELSE Len(counter.payload.vals)

\* C13: on every payload both counters give a natural number; None, an empty
\* mapping, an empty list, a string and a number all count 0.
C13_CounterTotality ==
    counter.mode # "none" =>
        /\ counter.result \in Nat
        /\ counter.payload.kind \in {"none", "str", "num"} => counter.result = 0
        /\ counter.payload.vals = <<>> => counter.result = 0

\* a mapping with a null and a string where lists are expected counts 0 traits
C13_Witness ==
    /\ counter.mode = "trait"
    /\ counter.payload = Body("map", <<TraitKey(1), TraitKey(2)>>,
                              <<Scalar("null"), Scalar("str")>>)
    /\ counter.result = 0

\* the taxon lookup returned a mapping that fits the schema and has a key
\* that is non-blank after stripping
IdsResolved ==
    /\ NamePath
    /\ returns # <<>>
    /\ HasBody(returns[1])
    /\ returns[1].content.kind = "map"
    /\ TaxonSchemaFits(returns[1].content)
    /\ ExpectedKeyIds(returns[1].content.keys) # <<>>

\* C21: on the name path the trait lookup is called with the keys of the
\* validated mapping, each stripped, blank ones dropped, in the mapping's
\* order and joined by commas; the taxon artifact reports the same list as
\* retrieved_taxon_ids.
C21_ResolvedIdString ==
    IdsResolved =>
        LET ids == ExpectedKeyIds(returns[1].content.keys)
        IN /\ Len(calls) = 2
           /\ IsTraitCall(calls[2])
           /\ calls[2].arg = CommaJoined(ids, Len(ids))
           /\ Cardinality(Indices(out, IsTaxonArtifact)) = 1
           /\ \A i \in Indices(out, IsTaxonArtifact) :
                 out[i].metadata.retrieved_taxon_ids = ids

\* the mapping {" 4": ..., "9": ...} led to the trait lookup for "4,9"
C21_Witness ==
    /\ IdsResolved
    /\ returns[1].content.keys = <<<<" ", "4">>, <<"9">>>>
    /\ Len(calls) = 2
    /\ calls[2].arg = <<"4", ",", "9">>

IsNoParsableWarning(m) ==
    /\ m.type = "text"
    /\ m.text = "No parsable trait records found in the raw (unvalidated) data"

\* the last call issued is the trait lookup and it has been answered
TraitAnswered ==
    /\ returns # <<>>
    /\ Len(returns) = Len(calls)
    /\ IsTraitCall(calls[Len(calls)])

\* what the trait counter gives on a raw body
RawTraitCount(b) ==
    IF b.kind = "map" THEN TotalLenOrZero(b.vals, Len(b.vals)) ELSE 0

\* C22: the 'No parsable trait records found in the raw (unvalidated) data'
\* warning is in the output exactly when the trait lookup returned a body
\* that fails validation and counts zero records; it appears once, and the
\* run then goes on to an unvalidated trait artifact with count 0 and to the
\* completion message.
C22_NoParsableWarning ==
    /\ Indices(out, IsNoParsableWarning) # {} <=>
          /\ TraitAnswered
          /\ HasBody(Last(returns))
          /\ ~TraitSchemaFits(Last(returns).content)
          /\ RawTraitCount(Last(returns).content) = 0
    /\ \A i \in Indices(out, IsNoParsableWarning) :
          /\ Cardinality(Indices(out, IsNoParsableWarning)) = 1
          /\ pc = "end"
          /\ Done
          /\ Cardinality(Indices(out, IsTraitArtifact)) = 1
          /\ \A j \in Indices(out, IsTraitArtifact) :
                /\ i < j
                /\ ~out[j].metadata.validated
                /\ out[j].metadata.trait_count = 0

\* a mapping with a string where a list of records belongs brought the
\* warning, and the run reached Done
C22_Witness ==
    /\ TraitAnswered
    /\ Last(returns).content.kind = "map"
    /\ Last(returns).content.vals # <<>>
    /\ Indices(out, IsNoParsableWarning) # {}
    /\ Done

\* C23: the taxon_ids_queried list of a trait artifact, got by splitting the
\* joined id string on commas, is the list of ids that was joined: the
\* normalized input ids on the id path, the retrieved_taxon_ids of the taxon
\* artifact on the name path, whatever the keys of the mapping.
C23_IdListRoundTrip ==
    \A j \in Indices(out, IsTraitArtifact) :
        /\ IdPath => out[j].metadata.taxon_ids_queried = ExpectedIds(input.id.val)
        /\ NamePath =>
              \A i \in Indices(out, IsTaxonArtifact) :
                  out[j].metadata.taxon_ids_queried = out[i].metadata.retrieved_taxon_ids

\* C23 on the id path alone
C23_IdPathRoundTrip ==
    \A j \in Indices(out, IsTraitArtifact) :
        IdPath => out[j].metadata.taxon_ids_queried = ExpectedIds(input.id.val)
====
